---- MODULE Spec2Model ----
(***************************************************************************)
(* Model of src/node/flow.ts: the Flow runner of brackets-flow.            *)
(*                                                                         *)
(* scanFileWithFlow(projectRoot, fullPath, callback) checks that the       *)
(* project has a .flowconfig and a flow binary, asks getFlowResult for the *)
(* (coalesced, timed) result of one `flow --json` run per project root and *)
(* maps it to a code inspection report for fullPath.                       *)
(*                                                                         *)
(* JavaScript is modelled at the granularity of its event loop: a          *)
(* macrotask (a timer firing, an event of a child process) runs to         *)
(* completion and only when the microtask queue `mq` is empty; promise     *)
(* reactions are jobs of the FIFO queue `mq`.  A call of scanFileWithFlow  *)
(* may come at any point between two jobs: from a macrotask of the caller, *)
(* from inside a callback this module invokes, or from a timer callback of *)
(* the caller that the runtime runs back to back with one of ours.         *)
(***************************************************************************)
EXTENDS Integers, Sequences, FiniteSets, TLC

(* ---- bounds of the model ---------------------------------------------- *)
MaxInv == 2       \* invocations of the flow binary started in one behaviour
MaxCalls == 2     \* calls of scanFileWithFlow in one behaviour
MaxMsgs == 2      \* messages of one finding given to createCodeInspectionReport
MaxFindings == 1  \* findings of one raw result given to createCodeInspectionReport

(* ---- program constants ------------------------------------------------ *)
FLOW_TIMEOUT == 3000

(* ---- JavaScript values ------------------------------------------------ *)
\* Every value is a record with a tag t, so that any two values compare.
Null == [t |-> "null"]
Undefined == [t |-> "undefined"]
Str(text) == [t |-> "string", text |-> text]
Err(name) == [t |-> "error", name |-> name]

\* A promise: pending, or settled once and for all.
Pending == [st |-> "pending", val |-> Undefined]
Fulfilled(v) == [st |-> "fulfilled", val |-> v]
Rejected(e) == [st |-> "rejected", val |-> e]
\* resolve()/reject() of a promise that is already settled do nothing.
Settle(p, outcome) == IF p.st = "pending" THEN outcome ELSE p

(* ---- paths ------------------------------------------------------------ *)
\* A path is [abs, segs]; a text is a sequence of tokens.
Cwd == <<"home">>
AbsPath(segs) == [abs |-> TRUE, segs |-> segs]
RelPath(segs) == [abs |-> FALSE, segs |-> segs]

RECURSIVE Normalize(_, _)
Normalize(segs, acc) ==
  IF segs = <<>> THEN acc
  ELSE LET s == Head(segs) IN
       IF s = "." THEN Normalize(Tail(segs), acc)
       ELSE IF s = ".."
            THEN Normalize(Tail(segs),
                           IF acc = <<>> THEN acc ELSE SubSeq(acc, 1, Len(acc) - 1))
            ELSE Normalize(Tail(segs), Append(acc, s))

\* path.resolve(p): absolute and normalized.
PathResolve(p) == Normalize((IF p.abs THEN <<>> ELSE Cwd) \o p.segs, <<>>)

PathA == AbsPath(<<"a.js">>)
FilePaths == {PathA}

(* ---- the projects and what is on disk at the time of a call ----------- *)
ProjectRoots == {"rootA", "rootB"}
FlowConfigFile == ".flowconfig"
FlowBinFile == "node_modules/.bin/flow"
DiskStates == SUBSET {FlowConfigFile, FlowBinFile}

\* Mutant: the check for the configuration looks for the binary.
hasFlowConfigWrongFile(disk) == FlowBinFile \in disk
\* Mutant: the check for the binary looks for the configuration.
hasFlowBinWrongFile(disk) == FlowConfigFile \in disk

\* lines 30-32 and 34-36: fileExists of <root>/.flowconfig, of <root>/node_modules/.bin/flow
hasFlowConfig(disk) == FlowConfigFile \in disk
hasFlowBin(disk) == FlowBinFile \in disk

(* ---- what the flow process may write to its standard output ----------- *)
TokOpen == "{\"errors\":["
TokClose == "]}"
TokFinding == "{\"level\":\"error\",\"message\":[Comment Foo, Blame /a.js bad 5 3]}]}"
TokNull == "null"

\* The outputs a run may produce in all, as sequences of chunks.
Outputs == { <<>>, <<TokOpen, TokFinding>>, <<TokNull>>, <<TokOpen>> }
OutputPrefixes == UNION { { SubSeq(o, 1, n) : n \in 0..Len(o) } : o \in Outputs }

Message(path, type, descr, line, start) ==
  [path |-> path, type |-> type, descr |-> descr, line |-> line, start |-> start]
FindingFoo ==
  [level |-> "error",
   message |-> << Message(RelPath(<<>>), "Comment", <<"Foo">>, 0, 0),
                  Message(PathA, "Blame", <<"bad">>, 5, 3) >>]

\* JSON.parse of the text: [ok, value]; ok = FALSE when it throws.
JSONParse(text) ==
  IF text = <<TokOpen, TokClose>> THEN [ok |-> TRUE, value |-> [t |-> "object", errors |-> <<>>]]
  ELSE IF text = <<TokOpen, TokFinding>>
       THEN [ok |-> TRUE, value |-> [t |-> "object", errors |-> <<FindingFoo>>]]
  ELSE IF text = <<TokNull>> THEN [ok |-> TRUE, value |-> Null]
  ELSE [ok |-> FALSE, value |-> Undefined]

RECURSIVE Concat(_)
\* Buffer.concat(stdout).toString(): the chunks in order of arrival.
Concat(chunks) == IF chunks = <<>> THEN <<>> ELSE <<Head(chunks)>> \o Concat(Tail(chunks))

(* ---- createCodeInspectionReport --------------------------------------- *)
RECURSIVE SelectDescr(_)
\* message.filter(x => x.type === 'Comment').map(x => x.descr)
SelectDescr(msgs) ==
  IF msgs = <<>> THEN <<>>
  ELSE (IF Head(msgs).type = "Comment" THEN <<Head(msgs).descr>> ELSE <<>>)
       \o SelectDescr(Tail(msgs))

RECURSIVE JoinSpace(_)
\* comments.join(' ')
JoinSpace(texts) ==
  IF texts = <<>> THEN <<>>
  ELSE IF Len(texts) = 1 THEN Head(texts)
  ELSE Head(texts) \o <<" ">> \o JoinSpace(Tail(texts))

Diagnostic(type, message, line, ch) ==
  [type |-> type, message |-> message, pos |-> [line |-> line, ch |-> ch]]

RECURSIVE MapMessagesNoShift(_, _, _, _)
\* Mutant: the 1-based position of the message is kept as it is.
MapMessagesNoShift(filePath, level, comments, msgs) ==
  IF msgs = <<>> THEN <<>>
  ELSE LET flowMessage == Head(msgs)
           message == IF Len(comments) > 0
                      THEN JoinSpace(comments) \o <<": ">> \o flowMessage.descr
                      ELSE flowMessage.descr
       IN (IF PathResolve(filePath) # PathResolve(flowMessage.path) THEN <<>>
           ELSE << Diagnostic(IF level = "error" THEN "problem_type_error"
                                                 ELSE "problem_type_warning",
                              message, flowMessage.line, flowMessage.start) >>)
          \o MapMessagesNoShift(filePath, level, comments, Tail(msgs))

RECURSIVE MapMessagesNoFilter(_, _, _, _)
\* Mutant: the messages of other files are not skipped.
MapMessagesNoFilter(filePath, level, comments, msgs) ==
  IF msgs = <<>> THEN <<>>
  ELSE LET flowMessage == Head(msgs)
           message == IF Len(comments) > 0
                      THEN JoinSpace(comments) \o <<": ">> \o flowMessage.descr
                      ELSE flowMessage.descr
       IN << Diagnostic(IF level = "error" THEN "problem_type_error"
                                           ELSE "problem_type_warning",
                        message, flowMessage.line - 1, flowMessage.start - 1) >>
          \o MapMessagesNoFilter(filePath, level, comments, Tail(msgs))

RECURSIVE MapMessages(_, _, _, _)
\* lines 66-83: flowError.message.forEach
MapMessages(filePath, level, comments, msgs) ==
  IF msgs = <<>> THEN <<>>
  ELSE LET flowMessage == Head(msgs)
           isForFilePath == PathResolve(filePath) = PathResolve(flowMessage.path)
           message == IF Len(comments) > 0
                      THEN JoinSpace(comments) \o <<": ">> \o flowMessage.descr
                      ELSE flowMessage.descr
       IN (IF ~isForFilePath THEN <<>>
           ELSE << Diagnostic(IF level = "error" THEN "problem_type_error"
                                                 ELSE "problem_type_warning",
                              message, flowMessage.line - 1, flowMessage.start - 1) >>)
          \o MapMessages(filePath, level, comments, Tail(msgs))

RECURSIVE MapFindings(_, _)
MapFindings(filePath, findings) ==
  IF findings = <<>> THEN <<>>
  ELSE MapMessages(filePath, Head(findings).level,
                   SelectDescr(Head(findings).message), Head(findings).message)
       \o MapFindings(filePath, Tail(findings))

Report(diags) == [t |-> "report", errors |-> diags]

\* flowResult.errors.forEach throws a TypeError when flowResult is not an object.
MapperThrows(flowResult) == flowResult.t # "object"
createCodeInspectionReport(filePath, flowResult) ==
  Report(MapFindings(filePath, flowResult.errors))

(* ---- the reports scanFileWithFlow builds itself ----------------------- *)
EmptyReport == Report(<<>>)
InstallReport ==
  Report(<< Diagnostic("problem_type_error",
                       <<"FlowError: Can't locate node_modules/.bin/flow in your project, please ",
                         "install", " flow-bin">>, 0, 0) >>)
TimeoutReport ==
  Report(<< Diagnostic("problem_type_error",
                       <<"FlowError: Timed out after waiting ", ToString(FLOW_TIMEOUT), "ms">>,
                       0, 0) >>)

(* ---- state ------------------------------------------------------------ *)
VARIABLES
  getFlowResults,  \* _getFlowResults: project root -> invocation whose promise is cached, 0 = none
  invs,            \* the invocations started by getFlowResult, in order of start
  calls,           \* the calls of scanFileWithFlow, in order of call
  mq,              \* the microtask queue: promise reaction jobs, FIFO
  mapper           \* one application of createCodeInspectionReport on its own

vars == <<getFlowResults, invs, calls, mq, mapper>>

InvIds == 1..Len(invs)
CallIds == 1..Len(calls)

Job(kind, id) == [kind |-> kind, id |-> id]

\* One run of the promise executor of getFlowResult and of the chain built on it:
\*   p0 = new Promise(executor), p1 = p0.then(clear), p2 = p1.catch(clear and rethrow);
\*   p2 is what _getFlowResults holds and what getFlowResult returns.
NewInvocation(projectRoot) ==
  [root |-> projectRoot,
   resolved |-> FALSE, timedOut |-> FALSE,
   timer |-> "armed",                    \* setTimeout: armed, fired or cleared
   stdout |-> <<>>,                      \* the chunks pushed by the 'data' handler
   closed |-> FALSE, errored |-> FALSE,  \* 'close' / 'error' emitted by the child
   cbs |-> <<>>,                         \* what spawnWrapper passed to its callback, in order
   p0 |-> Pending, p1 |-> Pending, p2 |-> Pending,
   waiters |-> <<>>]                     \* calls whose reaction is registered on p2, in order

\* One call of scanFileWithFlow.
NewCall(projectRoot, fullPath, disk, slot) ==
  [root |-> projectRoot, fullPath |-> fullPath, disk |-> disk,
   slot |-> slot,                        \* the invocation whose promise the call got, 0 = none
   late |-> FALSE,                       \* the call got it after the invocation had settled
   got |-> Pending,                      \* the state of that promise as the call's reaction saw it
   p3 |-> Pending, p4 |-> Pending,       \* p3 = p2.then(f), p4 = p3.catch(g): settled or not
   cbs |-> <<>>]                         \* the invocations of the caller's callback, in order

CallbackArgs(err, result, sync) == [err |-> err, result |-> result, sync |-> sync]

\* No application of the mapper on its own.
MapperIdle == [filePath |-> PathA, flowResult |-> Null, report |-> Undefined]

Init ==
  /\ getFlowResults = [r \in ProjectRoots |-> 0]
  /\ invs = <<>>
  /\ calls = <<>>
  /\ mq = <<>>
  /\ mapper = MapperIdle

(* ---- getFlowResult ---------------------------------------------------- *)
\* Mutant: one slot for all the projects instead of one per project root.
CachedSlotAnyRoot(projectRoot) ==
  IF \E r \in ProjectRoots : getFlowResults[r] # 0
  THEN getFlowResults[CHOOSE r \in ProjectRoots : getFlowResults[r] # 0]
  ELSE 0
\* Mutant: the cache is never consulted.
CacheNeverHit(projectRoot) == FALSE
\* line 92: if (_getFlowResults[projectRoot]) { return _getFlowResults[projectRoot]; }
CachedSlot(projectRoot) == getFlowResults[projectRoot]
CacheHit(projectRoot) == CachedSlot(projectRoot) # 0

\* lines 125 and 128: _getFlowResults[projectRoot] = undefined
ThenClear(projectRoot) == [getFlowResults EXCEPT ![projectRoot] = 0]
\* Mutant: the slot is cleared on success only.
CatchKeepsSlot(projectRoot) == getFlowResults
CatchClear(projectRoot) == [getFlowResults EXCEPT ![projectRoot] = 0]

\* lines 103-104
TimeoutError == Err("TimeoutError")
\* Mutant: no failure is recognised as a timeout.
IsTimeoutErrorNever(err) == FALSE
\* Mutant: every failure is reported as a timeout.
IsTimeoutErrorAlways(err) == TRUE
\* line 158
IsTimeoutError(err) == err.name = "TimeoutError"

\* Mutant: the timer is left running.
ClearTimeoutForgotten(timer) == timer
\* line 111: clearTimeout(timeoutID)
ClearTimeout(timer) == IF timer = "armed" THEN "cleared" ELSE timer

(* ---- scanFileWithFlow ------------------------------------------------- *)
\* The call returns at once with a synchronous callback when .flowconfig or the
\* binary is missing; otherwise it gets the promise of getFlowResult (starting an
\* invocation when none is cached) and registers its reaction on it.
scanFileWithFlow(projectRoot, fullPath, disk) ==
  /\ Len(calls) < MaxCalls
  /\ IF ~hasFlowConfig(disk)
     THEN /\ calls' = Append(calls, [NewCall(projectRoot, fullPath, disk, 0)
                                      EXCEPT !.cbs = <<CallbackArgs(Null, EmptyReport, TRUE)>>])
          /\ UNCHANGED <<getFlowResults, invs, mq>>
     ELSE IF ~hasFlowBin(disk)
     THEN /\ calls' = Append(calls, [NewCall(projectRoot, fullPath, disk, 0)
                                      EXCEPT !.cbs = <<CallbackArgs(Null, InstallReport, TRUE)>>])
          /\ UNCHANGED <<getFlowResults, invs, mq>>
     ELSE LET c == Len(calls) + 1 IN
          IF CacheHit(projectRoot)
          THEN LET i == CachedSlot(projectRoot) IN
               /\ calls' = Append(calls, [NewCall(projectRoot, fullPath, disk, i)
                                           EXCEPT !.late = invs[i].p0.st # "pending"])
               /\ IF invs[i].p2.st = "pending"
                  THEN /\ invs' = [invs EXCEPT ![i].waiters = Append(@, c)]
                       /\ mq' = mq
                  ELSE /\ invs' = invs
                       /\ mq' = Append(mq, Job("then2", c))
               /\ UNCHANGED getFlowResults
          ELSE /\ Len(invs) < MaxInv
               /\ invs' = Append(invs, [NewInvocation(projectRoot) EXCEPT !.waiters = <<c>>])
               /\ getFlowResults' = [getFlowResults EXCEPT ![projectRoot] = Len(invs) + 1]
               /\ calls' = Append(calls, NewCall(projectRoot, fullPath, disk, Len(invs) + 1))
               /\ UNCHANGED mq

(* ---- the timer -------------------------------------------------------- *)
\* Mutant: the guard of the handler is inverted.
TimeoutHandlerInverted(r) ==
  IF ~(r.resolved \/ r.timedOut) THEN r
  ELSE [r EXCEPT !.timedOut = TRUE, !.p0 = Settle(r.p0, Rejected(Err("TimeoutError")))]

\* lines 100-106: the handler of setTimeout(..., FLOW_TIMEOUT)
TimeoutHandler(r) ==
  IF r.resolved \/ r.timedOut THEN r
  ELSE [r EXCEPT !.timedOut = TRUE, !.p0 = Settle(r.p0, Rejected(TimeoutError))]

TimerFires(i) ==
  /\ mq = <<>>
  /\ invs[i].timer = "armed"
  /\ LET r == TimeoutHandler([invs[i] EXCEPT !.timer = "fired"]) IN
     /\ invs' = [invs EXCEPT ![i] = r]
     /\ mq' = IF invs[i].p0.st = "pending" /\ r.p0.st # "pending"
              THEN Append(mq, Job("then0", i)) ELSE mq
  /\ UNCHANGED <<getFlowResults, calls>>

(* ---- the child process and spawnWrapper ------------------------------- *)
\* lines 108-122: the callback getFlowResult hands to spawnWrapper
SpawnCallback(r, err, result) ==
  IF r.resolved \/ r.timedOut THEN r
  ELSE LET parsed == JSONParse(result.text)
           outcome == IF err # Null THEN Rejected(err)
                      ELSE IF parsed.ok THEN Fulfilled(parsed.value)
                      ELSE Rejected(Err("SyntaxError"))
       IN [r EXCEPT !.resolved = TRUE,
                    !.timer = ClearTimeout(r.timer),
                    !.p0 = Settle(r.p0, outcome)]

\* spawnWrapper calls back: the call is logged, then the callback runs.
CallsBack(i, r, err, result) ==
  LET r2 == SpawnCallback([r EXCEPT !.cbs = Append(@, [err |-> err, result |-> result])],
                          err, result) IN
  /\ invs' = [invs EXCEPT ![i] = r2]
  /\ mq' = IF r.p0.st = "pending" /\ r2.p0.st # "pending"
           THEN Append(mq, Job("then0", i)) ELSE mq

\* line 44: child.stdout.on('data', data => stdout.push(data))
ChildData(i, chunk) ==
  /\ mq = <<>>
  /\ ~invs[i].closed
  /\ Append(invs[i].stdout, chunk) \in OutputPrefixes
  /\ invs' = [invs EXCEPT ![i].stdout = Append(@, chunk)]
  /\ UNCHANGED <<getFlowResults, calls, mq>>

\* lines 47-49: child.once('close', ...)
ChildClose(i) ==
  /\ mq = <<>>
  /\ ~invs[i].closed
  /\ CallsBack(i, [invs[i] EXCEPT !.closed = TRUE], Null, Str(Concat(invs[i].stdout)))
  /\ UNCHANGED <<getFlowResults, calls>>

\* lines 51-54: child.once('error', ...)
ChildError(i) ==
  /\ mq = <<>>
  /\ ~invs[i].errored
  /\ CallsBack(i, [invs[i] EXCEPT !.errored = TRUE], Err("Error"), Undefined)
  /\ UNCHANGED <<getFlowResults, calls>>

(* ---- promise reaction jobs -------------------------------------------- *)
\* lines 124-127: p1 = p0.then(res => { clear; return res })
JobThen0(i) ==
  /\ mq # <<>> /\ Head(mq) = Job("then0", i)
  /\ getFlowResults' = IF invs[i].p0.st = "fulfilled" THEN ThenClear(invs[i].root)
                       ELSE getFlowResults
  /\ invs' = [invs EXCEPT ![i].p1 = invs[i].p0]
  /\ mq' = Append(Tail(mq), Job("catch1", i))
  /\ UNCHANGED calls

\* Mutant: the second handler clears the slot on success too.
JobCatch1AlwaysClears(i) ==
  /\ mq # <<>> /\ Head(mq) = Job("catch1", i)
  /\ getFlowResults' = CatchClear(invs[i].root)
  /\ invs' = [invs EXCEPT ![i].p2 = invs[i].p1]
  /\ mq' = Tail(mq) \o [n \in 1..Len(invs[i].waiters) |-> Job("then2", invs[i].waiters[n])]
  /\ UNCHANGED calls
\* Mutant: the waiters are served last come, first served.
JobCatch1Reversed(i) ==
  /\ mq # <<>> /\ Head(mq) = Job("catch1", i)
  /\ getFlowResults' = IF invs[i].p1.st = "rejected" THEN CatchClear(invs[i].root)
                       ELSE getFlowResults
  /\ invs' = [invs EXCEPT ![i].p2 = invs[i].p1]
  /\ mq' = Tail(mq) \o [n \in 1..Len(invs[i].waiters) |->
                           Job("then2", invs[i].waiters[Len(invs[i].waiters) + 1 - n])]
  /\ UNCHANGED calls

\* lines 127-130: p2 = p1.catch(err => { clear; throw err }); p2's reactions are queued
JobCatch1(i) ==
  /\ mq # <<>> /\ Head(mq) = Job("catch1", i)
  /\ getFlowResults' = IF invs[i].p1.st = "rejected" THEN CatchClear(invs[i].root)
                       ELSE getFlowResults
  /\ invs' = [invs EXCEPT ![i].p2 = invs[i].p1]
  /\ mq' = Tail(mq) \o [n \in 1..Len(invs[i].waiters) |-> Job("then2", invs[i].waiters[n])]
  /\ UNCHANGED calls

\* lines 152-156: p3 = p2.then(res => callback(null, createCodeInspectionReport(fullPath, res)))
JobThen2(c, throws) ==
  /\ mq # <<>> /\ Head(mq) = Job("then2", c)
  /\ LET call == calls[c]
         p2 == invs[call.slot].p2
     IN calls' = [calls EXCEPT ![c] =
          IF p2.st = "rejected" THEN [call EXCEPT !.got = p2, !.p3 = p2]
          ELSE IF MapperThrows(p2.val)
               THEN [call EXCEPT !.got = p2, !.p3 = Rejected(Err("TypeError"))]
          ELSE [call EXCEPT
                  !.got = p2,
                  !.cbs = Append(@, CallbackArgs(Null,
                                   createCodeInspectionReport(call.fullPath, p2.val), FALSE)),
                  !.p3 = IF throws THEN Rejected(Err("CallbackError"))
                         ELSE Fulfilled(Undefined)]]
  /\ mq' = Append(Tail(mq), Job("catch3", c))
  /\ UNCHANGED <<getFlowResults, invs>>

\* lines 156-170: p4 = p3.catch(err => timeout ? callback(null, report) : callback(err)).
\* Nobody holds p4: whether the callback throws inside this handler changes p4's
\* value and nothing else, so p4 keeps only that it has settled.
JobCatch3(c) ==
  /\ mq # <<>> /\ Head(mq) = Job("catch3", c)
  /\ LET call == calls[c] IN
     calls' = [calls EXCEPT ![c] =
          IF call.p3.st = "fulfilled" THEN [call EXCEPT !.p4 = Fulfilled(Undefined)]
          ELSE [call EXCEPT
                  !.cbs = Append(@, IF IsTimeoutError(call.p3.val)
                                    THEN CallbackArgs(Null, TimeoutReport, FALSE)
                                    ELSE CallbackArgs(call.p3.val, Undefined, FALSE)),
                  !.p4 = Fulfilled(Undefined)]]
  /\ mq' = Tail(mq)
  /\ UNCHANGED <<getFlowResults, invs>>

(* ---- the specification ------------------------------------------------ *)
Next ==
  \/ \E projectRoot \in ProjectRoots, fullPath \in FilePaths, disk \in DiskStates :
       scanFileWithFlow(projectRoot, fullPath, disk) /\ UNCHANGED mapper
  \/ \E i \in InvIds : TimerFires(i) /\ UNCHANGED mapper
  \/ \E i \in InvIds, chunk \in {TokOpen, TokFinding, TokNull} :
       ChildData(i, chunk) /\ UNCHANGED mapper
  \/ \E i \in InvIds : ChildClose(i) /\ UNCHANGED mapper
  \/ \E i \in InvIds : ChildError(i) /\ UNCHANGED mapper
  \/ \E i \in InvIds : JobThen0(i) /\ UNCHANGED mapper
  \/ \E i \in InvIds : JobCatch1(i) /\ UNCHANGED mapper
  \/ \E c \in CallIds, throws \in BOOLEAN : JobThen2(c, throws) /\ UNCHANGED mapper
  \/ \E c \in CallIds : JobCatch3(c) /\ UNCHANGED mapper

Spec == Init /\ [][Next]_vars

\* The event loop runs every queued promise job, and a timer that stays armed fires;
\* nothing says that the child process ever ends.
RunsJob ==
  /\ \/ \E i \in InvIds : JobThen0(i)
     \/ \E i \in InvIds : JobCatch1(i)
     \/ \E c \in CallIds, throws \in BOOLEAN : JobThen2(c, throws)
     \/ \E c \in CallIds : JobCatch3(c)
  /\ UNCHANGED mapper
TimerOf(i) == i \in InvIds /\ TimerFires(i) /\ UNCHANGED mapper
LiveSpec == Spec /\ WF_vars(RunsJob) /\ \A i \in 1..MaxInv : WF_vars(TimerOf(i))

(* ---- createCodeInspectionReport on its own ---------------------------- *)
\* The inputs: a target path and a raw result of at most MaxFindings findings of at
\* most MaxMsgs messages each.
PathADotted == AbsPath(<<"lib", "..", "a.js">>)
PathB == AbsPath(<<"b.js">>)
MapperPaths == {PathA, PathADotted, PathB}
MapperMessages ==
  { Message(RelPath(<<>>), "Comment", <<"Foo">>, 0, 0),
    Message(PathADotted, "Comment", <<"Bar">>, 2, 2),
    Message(PathA, "Blame", <<"bad">>, 5, 3),
    Message(PathB, "Blame", <<"worse">>, 1, 1) }
SeqsUpTo(S, n) == UNION { [1..k -> S] : k \in 0..n }
MapperFindings ==
  { [level |-> l, message |-> m] : l \in {"error", "warning"},
                                   m \in SeqsUpTo(MapperMessages, MaxMsgs) }
MapperResults ==
  { [t |-> "object", errors |-> e] : e \in SeqsUpTo(MapperFindings, MaxFindings) }

MapInit ==
  /\ getFlowResults = [r \in ProjectRoots |-> 0]
  /\ invs = <<>>
  /\ calls = <<>>
  /\ mq = <<>>
  /\ \E filePath \in MapperPaths, flowResult \in MapperResults :
       mapper = [filePath |-> filePath, flowResult |-> flowResult, report |-> Undefined]

\* lines 59-88: the call createCodeInspectionReport(filePath, flowResult)
MapperRuns ==
  /\ mapper.report = Undefined
  /\ mapper' = [mapper EXCEPT
                  !.report = createCodeInspectionReport(mapper.filePath, mapper.flowResult)]
  /\ UNCHANGED <<getFlowResults, invs, calls, mq>>

MapNext == MapperRuns

MapSpec == MapInit /\ [][MapNext]_vars

(* ======================================================================= *)
(* Properties                                                              *)
(* ======================================================================= *)
Settled(p) == p.st # "pending"
IsNewCall == Len(calls') = Len(calls) + 1
NewCallRec == calls'[Len(calls')]
\* A child process is in flight: started and neither completed nor errored.
InFlight(i) == ~invs[i].closed /\ ~invs[i].errored
SameRoot(i, j) == i # j /\ invs[i].root = invs[j].root

(* ---- C1 --------------------------------------------------------------- *)
\* Every call of getFlowResult made for a project root while an invocation for that
\* root has not settled joins that invocation and starts none.
C1_JoinsStep ==
  (IsNewCall /\ NewCallRec.slot # 0)
    => \A i \in InvIds :
         (invs[i].root = NewCallRec.root /\ ~Settled(invs[i].p0))
           => (NewCallRec.slot = i /\ Len(invs') = Len(invs))
\* The callers of one invocation see one and the same outcome.
C1_SameOutcome ==
  \A c \in CallIds : calls[c].slot # 0 =>
    /\ calls[c].got \in {Pending, invs[calls[c].slot].p2}
    /\ Settled(invs[calls[c].slot].p2) => invs[calls[c].slot].p2 = invs[calls[c].slot].p0
    /\ \A d \in CallIds :
         (calls[d].slot = calls[c].slot /\ Settled(calls[c].got) /\ Settled(calls[d].got))
           => calls[c].got = calls[d].got
\* C1: N calls of getFlowResult for one project root issued before the first one
\* settles start exactly one invocation, and all N callers receive the same outcome.
C1_Coalescing == []C1_SameOutcome /\ [][C1_JoinsStep]_vars
\* Two callers of one invocation have both received its outcome.
C1_Witness ==
  \E c, d \in CallIds :
    /\ c < d /\ calls[c].slot # 0 /\ calls[c].slot = calls[d].slot
    /\ Settled(calls[c].got) /\ Settled(calls[d].got)

(* ---- C2 --------------------------------------------------------------- *)
\* C2 as claimed: for each project root at most one child process is in flight.
C2_AtMostOneInFlight ==
  \A i, j \in InvIds : SameRoot(i, j) => ~(InFlight(i) /\ InFlight(j))
\* C2 as amended: for each project root at most one child process is in flight whose
\* invocation has not timed out (a timed-out one is abandoned, not killed).
C2_AtMostOneRacing ==
  \A i, j \in InvIds :
    SameRoot(i, j) => ~(InFlight(i) /\ ~invs[i].timedOut /\ InFlight(j) /\ ~invs[j].timedOut)
\* A second process runs for a root whose first one timed out and is still running.
C2_Witness ==
  \E i, j \in InvIds :
    SameRoot(i, j) /\ InFlight(i) /\ invs[i].timedOut /\ InFlight(j) /\ ~invs[j].timedOut

(* ---- C3 --------------------------------------------------------------- *)
IsTimeoutOutcome(p) == p.st = "rejected" /\ p.val = Err("TimeoutError")
\* Once the timer has fired the outcome of the slot is the timeout, for good, and each
\* of its waiters gets at most one outcome.
C3_TimeoutWins ==
  \A i \in InvIds : invs[i].timer = "fired" =>
    /\ IsTimeoutOutcome(invs[i].p0)
    /\ invs[i].p1 \in {Pending, invs[i].p0}
    /\ invs[i].p2 \in {Pending, invs[i].p0}
    /\ \A c \in CallIds : calls[c].slot = i =>
         /\ calls[c].got \in {Pending, invs[i].p0}
         /\ Len(calls[c].cbs) <= 1
\* A completion or an error of the child after its timer fired changes nothing but
\* the record of the child itself.
C3_LateEventStep ==
  \A i \in InvIds :
    (invs[i].timer = "fired"
       /\ (invs'[i].closed # invs[i].closed \/ invs'[i].errored # invs[i].errored))
      => /\ UNCHANGED <<getFlowResults, calls, mq>>
         /\ invs'[i].p0 = invs[i].p0 /\ invs'[i].p1 = invs[i].p1 /\ invs'[i].p2 = invs[i].p2
         /\ invs'[i].waiters = invs[i].waiters
\* C3: if the timer fires before the invocation completes, the outcome is the timeout
\* failure and a later completion or error of the invocation is discarded.
C3_LateCompletionDiscarded == []C3_TimeoutWins /\ [][C3_LateEventStep]_vars
\* The child completed after the timeout and a waiter has had its callback invoked.
C3_Witness ==
  \E i \in InvIds, c \in CallIds :
    /\ invs[i].timer = "fired" /\ invs[i].closed /\ Len(invs[i].cbs) > 0
    /\ calls[c].slot = i /\ Len(calls[c].cbs) = 1 /\ Settled(calls[c].p4)

(* ---- C4 --------------------------------------------------------------- *)
\* A settled slot is not in the cache.
C4_SettledSlotCleared ==
  \A i \in InvIds : Settled(invs[i].p2) => getFlowResults[invs[i].root] # i
\* A call never gets a settled slot: it joins a pending one or starts a new
\* invocation, with a new timer, whose slot it puts in the cache.
C4_FreshStep ==
  (IsNewCall /\ NewCallRec.slot # 0) =>
    LET s == NewCallRec.slot IN
    IF s \in InvIds
    THEN ~Settled(invs[s].p2)
    ELSE /\ invs'[s].timer = "armed" /\ ~Settled(invs'[s].p0)
         /\ ~invs'[s].closed /\ ~invs'[s].errored
         /\ getFlowResults'[NewCallRec.root] = s
         /\ \A i \in InvIds : invs[i].root = NewCallRec.root => Settled(invs[i].p0)
\* C4: after any settlement of the slot of a project root the slot is out of the
\* cache and the next call for the root starts a new invocation with a new timer.
C4_SlotNotReused == []C4_SettledSlotCleared /\ [][C4_FreshStep]_vars
\* A second invocation runs for a root whose first slot settled with a failure.
C4_Witness ==
  \E i, j \in InvIds :
    /\ i < j /\ SameRoot(i, j)
    /\ invs[i].p2.st = "rejected" /\ invs[j].timer = "armed"
    /\ getFlowResults[invs[j].root] = j

(* ---- C5 --------------------------------------------------------------- *)
JobRoot(job) ==
  IF job.kind \in {"then0", "catch1"} THEN invs[job.id].root ELSE calls[job.id].root
JobIsOf(r, job) == JobRoot(job) = r
\* All the state that belongs to a project root.
RootState(r) ==
  << getFlowResults[r],
     [i \in {j \in InvIds : invs[j].root = r} |-> invs[i]],
     [c \in {d \in CallIds : calls[d].root = r} |-> calls[c]],
     SelectSeq(mq, LAMBDA job : JobIsOf(r, job)) >>
\* No step changes the state of two project roots.
C5_FrameStep ==
  \A a, b \in ProjectRoots :
    a # b => (RootState(a)' = RootState(a) \/ RootState(b)' = RootState(b))
\* A call that finds no slot for its root starts an invocation of its own.
C5_OwnInvocationStep ==
  (IsNewCall /\ NewCallRec.slot # 0 /\ getFlowResults[NewCallRec.root] = 0)
    => (NewCallRec.slot = Len(invs) + 1 /\ invs'[NewCallRec.slot].timer = "armed")
\* A call waits on an invocation of its own project root.
C5_OwnRoot ==
  \A c \in CallIds : calls[c].slot # 0 => invs[calls[c].slot].root = calls[c].root
\* C5: the invocations of two distinct project roots are independent.
C5_RootsIndependent == []C5_OwnRoot /\ [][C5_FrameStep /\ C5_OwnInvocationStep]_vars
\* The slot of one root has settled and reported while the invocation of the other
\* root, started earlier, is still pending.
C5_Witness ==
  \E i, j \in InvIds, c \in CallIds :
    /\ i < j /\ invs[i].root # invs[j].root
    /\ ~Settled(invs[i].p0) /\ InFlight(i)
    /\ Settled(invs[j].p2) /\ calls[c].slot = j /\ Len(calls[c].cbs) = 1

(* ---- C6 --------------------------------------------------------------- *)
Mentions(message, token) == \E n \in 1..Len(message) : message[n] = token
\* One diagnostic of type problem_type_error at (0,0) that mentions the token.
IsSingleErrorAtOrigin(result, token) ==
  /\ result.t = "report"
  /\ Len(result.errors) = 1
  /\ result.errors[1].type = "problem_type_error"
  /\ result.errors[1].pos = [line |-> 0, ch |-> 0]
  /\ Mentions(result.errors[1].message, token)
\* C6: when the timeout wins, every caller coalesced onto the slot gets one callback,
\* without error, whose report is one problem_type_error at (0,0) that mentions the
\* timeout duration.
C6_TimeoutIsDiagnostic ==
  \A c \in CallIds :
    (calls[c].slot # 0 /\ IsTimeoutOutcome(invs[calls[c].slot].p0)) =>
      /\ \A n \in 1..Len(calls[c].cbs) :
           /\ calls[c].cbs[n].err = Null
           /\ IsSingleErrorAtOrigin(calls[c].cbs[n].result, ToString(FLOW_TIMEOUT))
      /\ Settled(calls[c].p4) => Len(calls[c].cbs) = 1
\* Two callers coalesced onto a slot that timed out have both been called back.
C6_Witness ==
  \E c, d \in CallIds :
    /\ c # d /\ calls[c].slot # 0 /\ calls[c].slot = calls[d].slot
    /\ IsTimeoutOutcome(invs[calls[c].slot].p0)
    /\ Settled(calls[c].p4) /\ Settled(calls[d].p4)

(* ---- C7 --------------------------------------------------------------- *)
IsOtherFailure(p) == p.st = "rejected" /\ p.val # Err("TimeoutError")
\* C7: when the invocation fails with anything but a timeout, every caller coalesced
\* onto the slot gets one callback, with the error and no report.
C7_FailurePropagates ==
  \A c \in CallIds :
    (calls[c].slot # 0 /\ IsOtherFailure(invs[calls[c].slot].p0)) =>
      /\ \A n \in 1..Len(calls[c].cbs) :
           /\ calls[c].cbs[n].err = invs[calls[c].slot].p0.val
           /\ calls[c].cbs[n].result = Undefined
      /\ Settled(calls[c].p4) => Len(calls[c].cbs) = 1
\* A spawn error and a parse error have each been delivered to a caller.
C7_Witness ==
  /\ \E c \in CallIds : /\ calls[c].slot # 0 /\ Settled(calls[c].p4)
                        /\ invs[calls[c].slot].p0 = Rejected(Err("Error"))
  /\ \E c \in CallIds : /\ calls[c].slot # 0 /\ Settled(calls[c].p4)
                        /\ invs[calls[c].slot].p0 = Rejected(Err("SyntaxError"))

(* ---- C8 --------------------------------------------------------------- *)
\* A call made without .flowconfig has got the empty report, synchronously, and
\* waits on no invocation.
C8_EmptyReport ==
  \A c \in CallIds : FlowConfigFile \notin calls[c].disk =>
    /\ calls[c].slot = 0
    /\ calls[c].cbs = <<CallbackArgs(Null, Report(<<>>), TRUE)>>
\* Such a call starts no invocation and no timer and leaves the cache alone.
C8_FrameStep ==
  (IsNewCall /\ FlowConfigFile \notin NewCallRec.disk) => UNCHANGED <<getFlowResults, invs, mq>>
\* C8: without configuration scanFileWithFlow returns an empty report and no error,
\* starts no invocation and no timer and leaves the coalescing cache unchanged.
C8_NoConfig == []C8_EmptyReport /\ [][C8_FrameStep]_vars
\* A call without .flowconfig, the binary being there, was made while a slot was cached.
C8_Witness ==
  \E c \in CallIds :
    /\ calls[c].disk = {FlowBinFile} /\ Len(calls[c].cbs) = 1
    /\ getFlowResults[calls[c].root] # 0

(* ---- C9 --------------------------------------------------------------- *)
\* A call made with .flowconfig and without the binary has got, synchronously and
\* without error, one problem_type_error at (0,0) that mentions installation.
C9_InstallReport ==
  \A c \in CallIds :
    (FlowConfigFile \in calls[c].disk /\ FlowBinFile \notin calls[c].disk) =>
      /\ calls[c].slot = 0
      /\ Len(calls[c].cbs) = 1
      /\ calls[c].cbs[1].err = Null
      /\ IsSingleErrorAtOrigin(calls[c].cbs[1].result, "install")
\* Such a call starts no invocation.
C9_FrameStep ==
  (IsNewCall /\ FlowConfigFile \in NewCallRec.disk /\ FlowBinFile \notin NewCallRec.disk)
    => UNCHANGED <<getFlowResults, invs, mq>>
\* C9: with the configuration present and the binary absent scanFileWithFlow returns,
\* without error and without starting an invocation, one problem_type_error
\* diagnostic at (0,0) that mentions installation.
C9_NoBinary == []C9_InstallReport /\ [][C9_FrameStep]_vars
\* A call with .flowconfig and without the binary has been answered.
C9_Witness ==
  \E c \in CallIds : calls[c].disk = {FlowConfigFile} /\ Len(calls[c].cbs) = 1

(* ---- C10 -------------------------------------------------------------- *)
\* C10: spawnWrapper never calls back with both a success and an error for one
\* invocation.
C10_OneDelivery ==
  \A i \in InvIds :
    ~\E m, n \in 1..Len(invs[i].cbs) : invs[i].cbs[m].err = Null /\ invs[i].cbs[n].err # Null

(* ---- C11 -------------------------------------------------------------- *)
\* The messages of the raw result, as pairs <<finding, message>> of indices.
MessageIndex(flowResult) ==
  UNION { { <<f, k>> : k \in 1..Len(flowResult.errors[f].message) } :
          f \in 1..Len(flowResult.errors) }
MessageAt(flowResult, fk) == flowResult.errors[fk[1]].message[fk[2]]
IsForTarget(filePath, m) == PathResolve(m.path) = PathResolve(filePath)
MapperDone == mapper.report # Undefined
\* C11: a comment message never yields a diagnostic of its own: the diagnostics of a
\* report are as many as the non-comment messages whose path equals the target.
C11_CommentsYieldNothing ==
  MapperDone =>
    Len(mapper.report.errors) =
      Cardinality({ fk \in MessageIndex(mapper.flowResult) :
                      /\ MessageAt(mapper.flowResult, fk).type # "Comment"
                      /\ IsForTarget(mapper.filePath, MessageAt(mapper.flowResult, fk)) })

(* ---- C12 -------------------------------------------------------------- *)
RECURSIVE C12_CommentPrefix(_)
\* The comment descriptions of the messages, each followed by a space.
C12_CommentPrefix(msgs) ==
  IF msgs = <<>> THEN <<>>
  ELSE IF Head(msgs).type = "Comment"
       THEN Head(msgs).descr \o <<" ">> \o C12_CommentPrefix(Tail(msgs))
       ELSE C12_CommentPrefix(Tail(msgs))
\* The diagnostic the claim gives for an ordinary message of a finding.
C12_DiagnosticOf(finding, m) ==
  LET spaced == C12_CommentPrefix(finding.message) IN
  [type |-> IF finding.level = "error" THEN "problem_type_error" ELSE "problem_type_warning",
   message |-> IF spaced = <<>> THEN m.descr
               ELSE SubSeq(spaced, 1, Len(spaced) - 1) \o <<": ">> \o m.descr,
   pos |-> [line |-> m.line - 1, ch |-> m.start - 1]]
RECURSIVE C12_OfFinding(_, _, _)
C12_OfFinding(filePath, finding, k) ==
  IF k > Len(finding.message) THEN <<>>
  ELSE (IF finding.message[k].type # "Comment" /\ IsForTarget(filePath, finding.message[k])
        THEN <<C12_DiagnosticOf(finding, finding.message[k])>> ELSE <<>>)
       \o C12_OfFinding(filePath, finding, k + 1)
RECURSIVE C12_Expected(_, _, _)
\* The diagnostics of the ordinary messages for the target, findings then messages.
C12_Expected(filePath, flowResult, f) ==
  IF f > Len(flowResult.errors) THEN <<>>
  ELSE C12_OfFinding(filePath, flowResult.errors[f], 1)
       \o C12_Expected(filePath, flowResult, f + 1)
RECURSIVE IsSubsequence(_, _)
IsSubsequence(a, b) ==
  IF a = <<>> THEN TRUE
  ELSE IF b = <<>> THEN FALSE
  ELSE IF Head(a) = Head(b) THEN IsSubsequence(Tail(a), Tail(b))
  ELSE IsSubsequence(a, Tail(b))
IsSuffix(a, b) == Len(a) <= Len(b) /\ SubSeq(b, Len(b) - Len(a) + 1, Len(b)) = a
\* The diagnostic comes from the message: its position and the end of its text.
DerivedFrom(diag, m) ==
  /\ diag.pos = [line |-> m.line - 1, ch |-> m.start - 1]
  /\ IsSuffix(m.descr, diag.message)
\* C13: the report for a target holds no diagnostic derived from a message whose path
\* differs from the target's.
C13_OnlyTargetMessages ==
  MapperDone =>
    LET forTarget == { fk \in MessageIndex(mapper.flowResult) :
                         IsForTarget(mapper.filePath, MessageAt(mapper.flowResult, fk)) } IN
    /\ Len(mapper.report.errors) = Cardinality(forTarget)
    /\ \A n \in 1..Len(mapper.report.errors) :
         \E fk \in forTarget :
           DerivedFrom(mapper.report.errors[n], MessageAt(mapper.flowResult, fk))
\* A report for /a.js was made of a finding with a message for /a.js and one for /b.js.
C13_Witness ==
  /\ MapperDone /\ mapper.filePath = PathA
  /\ Len(mapper.report.errors) = 1
  /\ \E fk \in MessageIndex(mapper.flowResult) :
       MessageAt(mapper.flowResult, fk).path = PathB
  /\ \E fk \in MessageIndex(mapper.flowResult) :
       MessageAt(mapper.flowResult, fk).path = PathA

(* ---- C14 -------------------------------------------------------------- *)
\* C14: the caller's callback is never invoked within the call of scanFileWithFlow.
C14_NeverSynchronous ==
  \A c \in CallIds : \A n \in 1..Len(calls[c].cbs) : ~calls[c].cbs[n].sync

(* ---- C16 -------------------------------------------------------------- *)
\* The call has run to its end: it returned after a synchronous callback, or its
\* promise chain has settled.
CallDone(c) == calls[c].slot = 0 \/ Settled(calls[c].p4)
\* C16: every call of scanFileWithFlow invokes the caller's callback exactly once.
C16_ExactlyOnce ==
  \A c \in CallIds : Len(calls[c].cbs) <= 1 /\ (CallDone(c) => Len(calls[c].cbs) = 1)

(* ---- C15 -------------------------------------------------------------- *)
\* The jobs of the queue that belong to an invocation or to one of its waiters.
JobsOf(j) ==
  SelectSeq(mq, LAMBDA job : IF job.kind \in {"then0", "catch1"} THEN job.id = j
                             ELSE calls[job.id].slot = j)
WaitersOf(j) == [c \in {d \in CallIds : calls[d].slot = j} |-> calls[c]]
\* A step that changes an invocation leaves a later invocation of the same root, its
\* waiters, its queued jobs and its cache entry as they are.
C15_EarlierStep ==
  \A i, j \in InvIds :
    (i < j /\ SameRoot(i, j) /\ invs'[i] # invs[i]) =>
      /\ invs'[j] = invs[j]
      /\ WaitersOf(j)' = WaitersOf(j)
      /\ JobsOf(j)' = JobsOf(j)
      /\ getFlowResults[invs[j].root] = j => getFlowResults'[invs[j].root] = j
\* C15: no event of an earlier invocation for a root (late completion or error, timer,
\* slot clearing) changes anything of a later invocation for that root.
C15_NoStaleEvents == [][C15_EarlierStep]_vars
\* The earlier invocation timed out and completed late while the later one, still
\* cached and pending with its timer armed, had been started.
C15_Witness ==
  \E i, j \in InvIds :
    /\ i < j /\ SameRoot(i, j)
    /\ invs[i].timer = "fired" /\ invs[i].closed /\ invs[i].errored
    /\ getFlowResults[invs[j].root] = j /\ ~Settled(invs[j].p0) /\ invs[j].timer = "armed"

(* ---- C17 -------------------------------------------------------------- *)
Answered(c) ==
  /\ c \in CallIds
  /\ Len(calls[c].cbs) >= 1
  /\ Settled(calls[c].got) /\ calls[c].got = invs[calls[c].slot].p2
\* C17: every call that reaches getFlowResult eventually has its callback invoked,
\* its reaction having seen the outcome of the slot it joined, if timers fire.
C17_EventuallyAnswered ==
  \A c \in 1..MaxCalls : (c \in CallIds /\ calls[c].slot # 0) ~> Answered(c)
\* A call that joined a slot after its invocation had timed out, the process still
\* running, has been answered.
C17_Witness ==
  \E c \in CallIds :
    /\ calls[c].slot # 0 /\ calls[c].late /\ Answered(c)
    /\ InFlight(calls[c].slot) /\ invs[calls[c].slot].stdout = <<>>

(* ---- C18 -------------------------------------------------------------- *)
\* C18: once the invocation has settled before its timer fired, the timer is
\* cancelled and stays so, and the outcome of the slot is not a timeout.
C18_TimerCancelled ==
  \A i \in InvIds : invs[i].resolved =>
    /\ invs[i].timer = "cleared"
    /\ ~invs[i].timedOut
    /\ ~IsTimeoutOutcome(invs[i].p0) /\ ~IsTimeoutOutcome(invs[i].p2)
\* An invocation settled with a parse error and its slot has settled.
C18_Witness ==
  \E i \in InvIds :
    /\ invs[i].resolved /\ invs[i].timer = "cleared"
    /\ invs[i].p2 = Rejected(Err("SyntaxError"))

(* ---- C19 -------------------------------------------------------------- *)
\* The next job invokes the callback of waiter c with the outcome of its slot.
BeingNotified(c) ==
  /\ calls[c].slot # 0 /\ mq # <<>>
  /\ \/ /\ Head(mq) = Job("then2", c)
        /\ invs[calls[c].slot].p2.st = "fulfilled"
        /\ ~MapperThrows(invs[calls[c].slot].p2.val)
     \/ /\ Head(mq) = Job("catch3", c)
        /\ calls[c].p3.st = "rejected"
\* C19 as claimed: while a waiter is notified the cache holds no slot for its root.
C19_CacheEmptyAtCallback ==
  \A c \in CallIds : BeingNotified(c) => getFlowResults[calls[c].root] = 0
\* C19 as amended: while a waiter is notified the cache does not hold its slot; it
\* holds none for the root or a later, pending one.
C19_SlotGoneAtCallback ==
  \A c \in CallIds : BeingNotified(c) =>
    LET s == getFlowResults[calls[c].root] IN
    /\ s # calls[c].slot
    /\ s # 0 => (s > calls[c].slot /\ ~Settled(invs[s].p2))
\* A waiter is notified while the cache holds a later slot for its root.
C19_Witness ==
  \E c \in CallIds : BeingNotified(c) /\ getFlowResults[calls[c].root] > calls[c].slot

(* ---- C20 -------------------------------------------------------------- *)
\* C20: the callers of one slot are called back in the order in which they attached,
\* and none before the race of the invocation and its timer has resolved.
C20_AttachOrder ==
  \A c, d \in CallIds :
    (calls[c].slot # 0 /\ calls[c].slot = calls[d].slot) =>
      /\ Len(calls[c].cbs) >= 1 => Settled(invs[calls[c].slot].p0)
      /\ (c < d /\ Len(calls[d].cbs) >= 1) => Len(calls[c].cbs) >= 1
      /\ \A m, n \in 1..Len(invs[calls[c].slot].waiters) :
           (invs[calls[c].slot].waiters[m] = c /\ invs[calls[c].slot].waiters[n] = d /\ c < d)
             => m < n
\* The first of two callers of a failed slot has been called back, the second not yet.
C20_Witness ==
  \E c, d \in CallIds :
    /\ c < d /\ calls[c].slot # 0 /\ calls[c].slot = calls[d].slot
    /\ invs[calls[c].slot].p2.st = "rejected"
    /\ Len(calls[c].cbs) = 1 /\ Len(calls[d].cbs) = 0

====
